---- MODULE Spec2Model ----
(***************************************************************************)
(* kanji_count / kanji_known: the Kanji table, Article.from_url with its   *)
(* per-article KanjiCount records, and UserProfile.get_articles.           *)
(*                                                                         *)
(* A character is represented by its codepoint (ord / chr).  The database  *)
(* tables are the variables kanji, articles, kanjicount and known_kanji;   *)
(* every ORM call autocommits, so a handler that raises keeps the rows it  *)
(* has written before the exception.                                       *)
(***************************************************************************)
EXTENDS Integers, Sequences, FiniteSets, TLC

\* ---- bounds of the model ------------------------------------------------
\* longest body text of a fetched page
MaxLen == 2

\* ---- constants of kanji_count/models.py ---------------------------------
FIRST_COMMON_KANJI == 19968
LAST_COMMON_KANJI == 40869
FIRST_RARE_KANJI == 13312
LAST_RARE_KANJI == 19893
\* models.SmallIntegerField: a signed 16-bit column
SmallIntMax == 32767
SmallIntMin == -32768

\* ---- inputs ---------------------------------------------------------------
\* the article URLs submitted; rows of different URLs never touch each other
Urls == {"http://a"}
\* the characters pages are written in: U+4E00, U+4E8C and the letter A
Alphabet == {19968, 20108, 65}
Texts == UNION {[1..n -> Alphabet] : n \in 0..MaxLen}
\* a web page as BeautifulSoup sees it: has it a <title>, has it a <body>,
\* and the text of the body
Pages == {[title |-> t, body |-> b, text |-> x] :
            t \in BOOLEAN, b \in BOOLEAN, x \in Texts}
WellFormedPages == {p \in Pages : ~p.body => p.text = <<>>}
\* TextField content of a freshly created Article row: the empty string
EmptyContent == [title |-> FALSE, body |-> FALSE, text |-> <<>>]
\* the database engine behind the ORM (settings are not part of the sources)
Backends == {"sqlite", "postgresql", "mysql"}

VARIABLES backend, kanji, articles, kanjicount, known_kanji, last

vars == <<backend, kanji, articles, kanjicount, known_kanji, last>>

\* ---- the Kanji table ------------------------------------------------------
\* kanji is a set of intervals <<lo, hi>>: a row (char = chr(o), ordinal = o)
\* exists for every o in lo..hi
HasKanjiRow(o) == \E iv \in kanji : iv[1] <= o /\ o <= iv[2]

\* Kanji.is_kanji
is_kanji(character) == HasKanjiRow(character)

\* does the ordinal column take the value o
OrdinalFits(o) ==
    \/ backend = "sqlite"
    \/ (SmallIntMin <= o /\ o <= SmallIntMax)

\* one loop of generate over range(first, last): the rows it leaves behind
\* and whether it ran to the end
GenerateLoop(first, lastExcl) ==
    LET hi == lastExcl - 1
    IN  IF first > hi THEN [rows |-> {}, ok |-> TRUE]
        ELSE IF OrdinalFits(hi) THEN [rows |-> {<<first, hi>>}, ok |-> TRUE]
        ELSE IF OrdinalFits(first) THEN [rows |-> {<<first, SmallIntMax>>}, ok |-> FALSE]
        ELSE [rows |-> {}, ok |-> FALSE]

\* last: the most recent call, how it ended ("ok" or the exception raised) and
\* what it returned.  repeat marks a from_url that re-fetched, right after a
\* completed from_url of the same URL, the content that call stored.
NoCall == [op |-> "none", url |-> "", repeat |-> FALSE, outcome |-> "ok",
           result |-> <<>>]

\* Kanji.generate
Generate ==
    LET common == GenerateLoop(FIRST_COMMON_KANJI, LAST_COMMON_KANJI)
        rare == GenerateLoop(FIRST_RARE_KANJI, LAST_RARE_KANJI)
    IN  /\ kanji' = IF common.ok THEN kanji \cup common.rows \cup rare.rows
                    ELSE kanji \cup common.rows
        /\ last' = [NoCall EXCEPT !.op = "generate",
                       !.outcome = IF common.ok /\ rare.ok THEN "ok" ELSE "DataError"]
        /\ UNCHANGED <<backend, articles, kanjicount, known_kanji>>

\* ---- Article.from_url ----------------------------------------------------
\* what requests.get(url) + raise_for_status() gives: a page, or an exception
Fetches == {[status |-> "ok", page |-> p] : p \in WellFormedPages}
             \cup {[status |-> "error", page |-> EmptyContent]}

\* Article.objects.get_or_create(url=url): the row with the field defaults
NewArticle == [content |-> EmptyContent, title |-> "", kanji_total |-> 0]

GetOrCreateArticle(u) ==
    IF u \in DOMAIN articles THEN articles
    ELSE [x \in DOMAIN articles \cup {u} |->
            IF x = u THEN NewArticle ELSE articles[x]]

\* soup.title.string of a page that has a title
TitleString == "title"

\* Counter(char for char in tagless_content if Kanji.is_kanji(char))
CounterOf(text) ==
    [c \in {text[i] : i \in {j \in DOMAIN text : is_kanji(text[j])}} |->
        Cardinality({i \in DOMAIN text : text[i] = c})]

RECURSIVE SumValues(_)
\* sum(counter.values())
SumValues(counter) ==
    IF DOMAIN counter = {} THEN 0
    ELSE LET c == CHOOSE x \in DOMAIN counter : TRUE
         IN  counter[c] + SumValues([x \in DOMAIN counter \ {c} |-> counter[x]])

\* the orders in which counter.items() may yield its keys
Orders(keys) ==
    {s \in [1..Cardinality(keys) -> keys] :
        \A i, j \in DOMAIN s : i # j => s[i] # s[j]}

RECURSIVE StoreCountsCreate(_, _, _, _)
\* StoreCounts with objects.create in the place of get_or_create: a row of
\* the same (article, kanji) always violates unique_together
StoreCountsCreate(u, counter, order, kc) ==
    IF order = <<>> THEN [kc |-> kc, outcome |-> "ok"]
    ELSE LET c == Head(order)
             row == [article |-> u, kanji |-> c, total |-> counter[c]]
         IN  IF \E r \in kc : r.article = u /\ r.kanji = c
             THEN [kc |-> kc, outcome |-> "IntegrityError"]
             ELSE StoreCountsCreate(u, counter, Tail(order), kc \cup {row})

RECURSIVE StoreCounts(_, _, _, _)
\* the loop of count_kanji: KanjiCount.objects.get_or_create(article, kanji,
\* total=count) for each item.  The lookup is by all three fields; a row of
\* the same (article, kanji) with another total makes the INSERT violate
\* unique_together, and get_or_create re-raises the IntegrityError.
StoreCounts(u, counter, order, kc) ==
    IF order = <<>> THEN [kc |-> kc, outcome |-> "ok"]
    ELSE LET c == Head(order)
             row == [article |-> u, kanji |-> c, total |-> counter[c]]
         IN  IF row \in kc THEN StoreCounts(u, counter, Tail(order), kc)
             ELSE IF \E r \in kc : r.article = u /\ r.kanji = c
                  THEN [kc |-> kc, outcome |-> "IntegrityError"]
             ELSE StoreCounts(u, counter, Tail(order), kc \cup {row})

FromUrlCall(u, f, outcome) ==
    [NoCall EXCEPT !.op = "from_url", !.url = u, !.outcome = outcome,
        !.repeat = (/\ last.op = "from_url" /\ last.url = u /\ last.outcome = "ok"
                    /\ f.status = "ok" /\ articles[u].content = f.page)]

\* Article.from_url(url), count_kanji included
FromUrl(u) ==
    \E f \in Fetches :
        LET created == GetOrCreateArticle(u)
            saved == [created EXCEPT ![u].content = f.page,
                                     ![u].title = TitleString]
            counter == CounterOf(f.page.text)
            counted == [saved EXCEPT ![u].kanji_total = SumValues(counter)]
        IN  /\ UNCHANGED <<backend, kanji, known_kanji>>
            /\ IF f.status = "error"
               THEN \* get_content raises
                    /\ articles' = created
                    /\ kanjicount' = kanjicount
                    /\ last' = FromUrlCall(u, f, "FetchError")
               ELSE IF ~f.page.title
               THEN \* get_title: soup.title is None
                    /\ articles' = created
                    /\ kanjicount' = kanjicount
                    /\ last' = FromUrlCall(u, f, "TitleError")
               ELSE IF ~f.page.body
               THEN \* remove_tags: soup.body is None, after article.save()
                    /\ articles' = saved
                    /\ kanjicount' = kanjicount
                    /\ last' = FromUrlCall(u, f, "BodyError")
               ELSE \E order \in Orders(DOMAIN counter) :
                      LET stored == StoreCounts(u, counter, order, kanjicount)
                      IN  /\ articles' = counted
                          /\ kanjicount' = stored.kc
                          /\ last' = FromUrlCall(u, f, stored.outcome)

\* ---- UserProfile ----------------------------------------------------------
\* UserProfile.add_known_kanji(char)
AddKnownKanji(char) ==
    /\ IF HasKanjiRow(char)
       THEN /\ known_kanji' = known_kanji \cup {char}
            /\ last' = [NoCall EXCEPT !.op = "add_known_kanji"]
       ELSE \* Kanji.objects.get raises DoesNotExist
            /\ known_kanji' = known_kanji
            /\ last' = [NoCall EXCEPT !.op = "add_known_kanji",
                                      !.outcome = "DoesNotExist"]
    /\ UNCHANGED <<backend, kanji, articles, kanjicount>>

\* Joined without the WHERE clause: the aggregate taken over every
\* KanjiCount row of the article
JoinedUnfiltered == {kc \in kanjicount : kc.article \in DOMAIN articles}

\* filter(kanjicount__kanji__in=self.known_kanji.all()): the rows of
\* article INNER JOIN kanjicount that the WHERE clause keeps
Joined == {kc \in kanjicount : kc.article \in DOMAIN articles
                                 /\ kc.kanji \in known_kanji}

RECURSIVE SumTotal(_)
\* Sum('kanjicount__total') over the joined rows of one group
SumTotal(rows) ==
    IF rows = {} THEN 0
    ELSE LET r == CHOOSE x \in rows : TRUE
         IN  r.total + SumTotal(rows \ {r})

\* (Sum * 1.0) / F('kanji_total') as an exact fraction; den = 0 is SQL NULL,
\* what sqlite and mysql give for a division by zero
Divide(n, d) == IF d = 0 THEN [num |-> 0, den |-> 0] ELSE [num |-> n, den |-> d]

\* Annotated over a LEFT OUTER JOIN: every article, matched or not
AnnotatedOuter ==
    {[article |-> u,
      known |-> Divide(SumTotal({kc \in Joined : kc.article = u}),
                       articles[u].kanji_total)] :
        u \in DOMAIN articles}

\* annotate(known=...): one row per article of the join (GROUP BY article)
Annotated ==
    {[article |-> u,
      known |-> Divide(SumTotal({kc \in Joined : kc.article = u}),
                       articles[u].kanji_total)] :
        u \in {kc.article : kc \in Joined}}

\* postgresql raises "division by zero" for the whole query
QueryRaises ==
    /\ backend = "postgresql"
    /\ \E r \in Annotated : articles[r.article].kanji_total = 0

\* a >= b in ORDER BY known DESC, NULL sorting last
SortsBefore(a, b) ==
    IF b.den = 0 THEN TRUE
    ELSE IF a.den = 0 THEN FALSE
    ELSE a.num * b.den >= b.num * a.den

\* order_by('-known'): the sequences the query may return
Ranked ==
    {s \in [1..Cardinality(Annotated) -> Annotated] :
        /\ \A i, j \in DOMAIN s : i # j => s[i] # s[j]
        /\ \A i, j \in DOMAIN s : i < j => SortsBefore(s[i].known, s[j].known)}

\* UserProfile.get_articles, evaluated
GetArticles ==
    /\ IF QueryRaises
       THEN last' = [NoCall EXCEPT !.op = "get_articles", !.outcome = "DataError"]
       ELSE \E s \in Ranked :
                last' = [NoCall EXCEPT !.op = "get_articles", !.result = s]
    /\ UNCHANGED <<backend, kanji, articles, kanjicount, known_kanji>>

\* ---- properties -----------------------------------------------------------
\* the two closed intervals of the kanji codes
InKanjiRanges(c) ==
    \/ (FIRST_COMMON_KANJI <= c /\ c <= LAST_COMMON_KANJI)
    \/ (FIRST_RARE_KANJI <= c /\ c <= LAST_RARE_KANJI)

\* the codepoints of the Basic Multilingual Plane
CodePoints == 0..65535

KanjiCodes == {c \in CodePoints : InKanjiRanges(c)}

\* the KanjiCount rows of one article
CountsOf(u) == {kc \in kanjicount : kc.article = u}

\* the frequency table of a text, as rows of article u
FrequencyRows(u, text) ==
    {[article |-> u, kanji |-> c,
      total |-> Cardinality({i \in DOMAIN text : text[i] = c})] :
        c \in {text[i] : i \in {j \in DOMAIN text : HasKanjiRow(text[j])}}}

\* the recorded total of kanji c in article u, 0 without a record
RecordedTotal(u, c) ==
    IF \E kc \in CountsOf(u) : kc.kanji = c
    THEN (CHOOSE kc \in CountsOf(u) : kc.kanji = c).total
    ELSE 0

RECURSIVE KnownOccurrences(_, _)
\* the occurrences in article u of the kanji of the set known
KnownOccurrences(u, known) ==
    IF known = {} THEN 0
    ELSE LET c == CHOOSE x \in known : TRUE
         IN  RecordedTotal(u, c) + KnownOccurrences(u, known \ {c})

\* C1: once generate() has run to its end, is_kanji(c) is true exactly for
\* the codepoints of [U+4E00, U+9FA5] and [U+3400, U+4DB5], bounds included
C1_IsKanjiIffInRanges ==
    (last.op = "generate" /\ last.outcome = "ok")
        => \A c \in CodePoints : is_kanji(c) <=> InKanjiRanges(c)

\* C2: when a from_url call has completed, the article's kanji_total is the
\* sum of total over its KanjiCount rows
C2_TotalIsSumOfCounts ==
    (last.op = "from_url" /\ last.outcome = "ok")
        => articles[last.url].kanji_total = SumTotal(CountsOf(last.url))

\* C3: a from_url call whose fetch and extraction succeed completes, and it
\* leaves kanji_total and the KanjiCount rows of the article equal to the
\* frequency table of the content it fetched, whatever was stored before
C3_OverwriteToCurrentContent ==
    (last.op = "from_url"
        /\ last.outcome \notin {"FetchError", "TitleError", "BodyError"})
        => /\ last.outcome = "ok"
           /\ CountsOf(last.url)
                = FrequencyRows(last.url, articles[last.url].content.text)
           /\ articles[last.url].kanji_total
                = Len(SelectSeq(articles[last.url].content.text, HasKanjiRow))

C5_FailureLeavesNoTrace ==
    [][(last'.op = "from_url"
        /\ last'.outcome \in {"FetchError", "TitleError", "BodyError"})
        => (articles' = articles /\ kanjicount' = kanjicount)]_vars

\* C6: from_url does not fail on a page without a title element
C6_MissingTitleDoesNotFail ==
    ~(last.op = "from_url" /\ last.outcome = "TitleError")

C8_OnlyArticlesWithKnownKanji ==
    (last.op = "get_articles" /\ last.outcome = "ok")
        => /\ \A i \in DOMAIN last.result :
                \E kc \in CountsOf(last.result[i].article) :
                    kc.kanji \in known_kanji
           /\ \A i, j \in DOMAIN last.result :
                i # j => last.result[i].article # last.result[j].article

C8_Witness ==
    /\ last.op = "get_articles" /\ last.outcome = "ok"
    /\ known_kanji # {}
    /\ \E u \in DOMAIN articles :
         /\ CountsOf(u) # {}
         /\ \A kc \in CountsOf(u) : kc.kanji \notin known_kanji
         /\ \A i \in DOMAIN last.result : last.result[i].article # u

\* C9: get_articles never raises and never returns an article whose
\* kanji_total is 0
C9_DivisionSafety ==
    last.op = "get_articles"
        => /\ last.outcome = "ok"
           /\ \A i \in DOMAIN last.result :
                articles[last.result[i].article].kanji_total # 0

\* C10: generate() leaves a row for every codepoint of both ranges, its
\* ordinal within the signed 16 bits of the ordinal column
C10_OrdinalsStored ==
    last.op = "generate"
        => /\ last.outcome = "ok"
           /\ \A o \in KanjiCodes :
                HasKanjiRow(o) /\ SmallIntMin <= o /\ o <= SmallIntMax

Init ==
    /\ backend \in Backends
    /\ kanji = {}
    /\ articles = [u \in {} |-> EmptyContent]
    /\ kanjicount = {}
    /\ known_kanji = {}
    /\ last = NoCall

Next ==
    \/ Generate
    \/ \E u \in Urls : FromUrl(u)
    \/ \E c \in Alphabet : AddKnownKanji(c)
    \/ GetArticles

Spec == Init /\ [][Next]_vars
====
